---- MODULE Spec2Model ----
(***************************************************************************)
(* Model of worst_offenders_with_TDE_line.py: the script lists the         *)
(* operands of the Tolerance Data Editor (TDE), reads the summary of the   *)
(* Tolerance Data Viewer, parses its "Worst offenders" section and reports *)
(* every offender with the TDE line that index() finds for it.             *)
(*                                                                         *)
(* Text is a sequence of one-character strings, so that find, slicing,     *)
(* split, int() and float() are computed as Python computes them.  The     *)
(* texts of the model use the characters 0-9 + - . space, tab, newline and *)
(* letters other than those of an exponent, "inf" or "nan", and no "_".    *)
(***************************************************************************)
EXTENDS Integers, Sequences, FiniteSets, TLC

(***************************************************************************)
(* Bounds of the model.                                                    *)
(***************************************************************************)
MaxOperands == 2
MaxOffenders == 2

(***************************************************************************)
(* Python text primitives.  Positions are 0-based as in Python.            *)
(***************************************************************************)
NL == "\n"
TAB == "\t"
SPACE == " "

Digits == {"0", "1", "2", "3", "4", "5", "6", "7", "8", "9"}

DigitVal(c) ==
    CASE c = "0" -> 0 [] c = "1" -> 1 [] c = "2" -> 2 [] c = "3" -> 3
      [] c = "4" -> 4 [] c = "5" -> 5 [] c = "6" -> 6 [] c = "7" -> 7
      [] c = "8" -> 8 [] c = "9" -> 9

\* str.find(sub): the lowest position where sub occurs, -1 when it does not.
Find(s, sub) ==
    LET occ == {i \in 0..(Len(s) - Len(sub)) :
                    SubSeq(s, i + 1, i + Len(sub)) = sub}
    IN  IF occ = {} THEN -1
        ELSE CHOOSE i \in occ : \A j \in occ : i <= j

\* One bound of a slice: a negative bound counts from the end, and every
\* bound is clamped to 0..len.
SliceBound(n, len) ==
    LET m == IF n < 0 THEN n + len ELSE n
    IN  IF m < 0 THEN 0 ELSE IF m > len THEN len ELSE m

\* s[a:b]
PySlice(s, a, b) ==
    SubSeq(s, SliceBound(a, Len(s)) + 1, SliceBound(b, Len(s)))

\* s[a:]
PySliceFrom(s, a) == SubSeq(s, SliceBound(a, Len(s)) + 1, Len(s))

\* str.split(sep) for a one-character separator: always at least one piece.
RECURSIVE Split(_, _)
Split(s, sep) ==
    IF \E i \in 1..Len(s) : s[i] = sep
    THEN LET i == CHOOSE k \in 1..Len(s) :
                      s[k] = sep /\ \A j \in 1..(k - 1) : s[j] # sep
         IN  <<SubSeq(s, 1, i - 1)>> \o Split(SubSeq(s, i + 1, Len(s)), sep)
    ELSE <<s>>

\* str.strip() as int() and float() apply it (the model's only blank is " ").
RECURSIVE Strip(_)
Strip(s) ==
    IF s = <<>> THEN s
    ELSE IF Head(s) = SPACE THEN Strip(Tail(s))
    ELSE IF s[Len(s)] = SPACE THEN Strip(SubSeq(s, 1, Len(s) - 1))
    ELSE s

\* str.split() without separator: the non-empty runs between blanks.
RECURSIVE SplitBlank(_)
SplitBlank(s) ==
    LET t == Strip(s)
    IN  IF t = <<>> THEN <<>>
        ELSE IF \E i \in 1..Len(t) : t[i] = SPACE
        THEN LET i == CHOOSE k \in 1..Len(t) :
                          t[k] = SPACE /\ \A j \in 1..(k - 1) : t[j] # SPACE
             IN  <<SubSeq(t, 1, i - 1)>> \o SplitBlank(SubSeq(t, i + 1, Len(t)))
        ELSE <<t>>

AllDigits(s) == \A i \in 1..Len(s) : s[i] \in Digits

RECURSIVE DigitsVal(_)
DigitsVal(s) ==
    IF s = <<>> THEN 0
    ELSE 10 * DigitsVal(SubSeq(s, 1, Len(s) - 1)) + DigitVal(s[Len(s)])

\* The text without its sign, and the sign.
Unsigned(s) == IF s # <<>> /\ Head(s) \in {"+", "-"} THEN Tail(s) ELSE s
SignOf(s) == IF s # <<>> /\ Head(s) = "-" THEN -1 ELSE 1

\* int(s) succeeds: blanks around, an optional sign, at least one digit.
IsInt(s) ==
    LET u == Unsigned(Strip(s)) IN u # <<>> /\ AllDigits(u)

\* int(s), for a text on which it succeeds.
IntOf(s) == SignOf(Strip(s)) * DigitsVal(Unsigned(Strip(s)))

\* A float is kept exactly, as num / 10^exp with the trailing zeros of the
\* fraction removed, so that "1", "1.0" and "1.00" are the same value.
RECURSIVE Normalise(_, _)
Normalise(num, exp) ==
    IF exp > 0 /\ num % 10 = 0 THEN Normalise(num \div 10, exp - 1)
    ELSE [num |-> num, exp |-> exp]

\* The integer and the fraction digits of an unsigned decimal text.
IntPart(u) ==
    LET p == Find(u, <<".">>) IN IF p = -1 THEN u ELSE SubSeq(u, 1, p)
FracPart(u) ==
    LET p == Find(u, <<".">>)
    IN  IF p = -1 THEN <<>> ELSE SubSeq(u, p + 2, Len(u))

\* float(s) succeeds: blanks around, an optional sign, digits with at most
\* one point and at least one digit.
IsFloat(s) ==
    LET u == Unsigned(Strip(s))
    IN  /\ AllDigits(IntPart(u))
        /\ AllDigits(FracPart(u))
        /\ Len(IntPart(u)) + Len(FracPart(u)) > 0

\* float(s), for a text on which it succeeds.
FloatOf(s) ==
    LET u == Unsigned(Strip(s))
        mag == DigitsVal(IntPart(u) \o FracPart(u))
    IN  Normalise(SignOf(Strip(s)) * mag, Len(FracPart(u)))

(***************************************************************************)
(* Texts of the program and of the application.                            *)
(***************************************************************************)
NOMINAL_MARKER ==
    <<"N", "o", "m", "i", "n", "a", "l", " ", "C", "r", "i", "t", "e",
      "r", "i", "o", "n", " ", " ", " ", ":", " ">>
WORST_MARKER ==
    <<"W", "o", "r", "s", "t", " ", "o", "f", "f", "e", "n", "d", "e",
      "r", "s", ":">>
RSS_MARKER ==
    <<"E", "s", "t", "i", "m", "a", "t", "e", "d", " ", "P", "e", "r",
      "f", "o", "r", "m", "a", "n", "c", "e", " ", "C", "h", "a", "n",
      "g", "e", "s", " ", "b", "a", "s", "e", "d", " ", "u", "p", "o",
      "n", " ", "R", "o", "o", "t", "-", "S", "u", "m", "-", "S", "q",
      "u", "a", "r", "e", " ", "m", "e", "t", "h", "o", "d">>
NominalOffset == 22
IGNORE_COLUMNS == {"Max#", "Min#"}

\* Texts the application shows (the model's inputs are built from them).
PREAMBLE ==
    <<"A", "n", "a", "l", "y", "s", "i", "s", " ", "o", "f", " ", "T",
      "o", "l", "e", "r", "a", "n", "c", "e", "s", "\n">>
HEADER ==
    <<"T", "y", "p", "e", "\t", "V", "a", "l", "u", "e", "\t", "C", "r",
      "i", "t", "e", "r", "i", "o", "n", "\t", "C", "h", "a", "n", "g",
      "e">>
NO_DATA ==
    <<"N", "o", " ", "t", "o", "l", "e", "r", "a", "n", "c", "e", " ",
      "d", "a", "t", "a">>
TOL_TTHI == <<"T", "O", "L", " ", "T", "T", "H", "I">>
TOL_TEZI == <<"T", "O", "L", " ", "T", "E", "Z", "I">>
F_TTHI == <<"T", "T", "H", "I", " ">>
F_TEZI == <<"T", "E", "Z", "I", " ">>
F_NEG == <<"-", "0", ".", "5">>
F_POS == <<"0", ".", "5">>
F_CRIT == <<"1", ".", "5">>
F_ONE == <<"1">>
F_PAD2 == <<" ", "2">>
F_EMPTY == <<>>

(***************************************************************************)
(* Python dicts are functions from keys; == compares keys and values.      *)
(***************************************************************************)
DictEq(a, b) ==
    /\ DOMAIN a = DOMAIN b
    /\ \A k \in DOMAIN a : a[k] = b[k]

\* DictSet with a slip: the value is written over Int1 as well.
DictSet_OverInt1(d, key, v) ==
    [k \in (DOMAIN d) \cup {key} |->
        IF k = key \/ k = "Int1" THEN v ELSE d[k]]

DictSet(d, key, v) ==
    [k \in (DOMAIN d) \cup {key} |-> IF k = key THEN v ELSE d[k]]

\* ListIndex with a slip: the last element equal to x.
ListIndex_Last(list, x) ==
    LET hits == {i \in 1..Len(list) : DictEq(list[i], x)}
    IN  IF hits = {} THEN 0
        ELSE CHOOSE i \in hits : \A j \in hits : i >= j

\* list.index(x) + 1: the 1-based position of the first element equal to
\* x, 0 when index() raises ValueError.
ListIndex(list, x) ==
    LET hits == {i \in 1..Len(list) : DictEq(list[i], x)}
    IN  IF hits = {} THEN 0
        ELSE CHOOSE i \in hits : \A j \in hits : i <= j

(***************************************************************************)
(* get_tde_operands: the listing entry of one operand.                     *)
(***************************************************************************)
\* OperandData with a slip: the header of Param2 filters both columns.
OperandData_OneHeader(operand) ==
    [Type |-> SplitBlank(operand.TypeName)[2],
     Int1 |-> operand.Param1,
     Int2 |-> IF operand.Param2Header \notin IGNORE_COLUMNS
              THEN operand.Param2 ELSE 0,
     Int3 |-> IF operand.Param2Header \notin IGNORE_COLUMNS
              THEN operand.Param3 ELSE 0]

OperandData(operand) ==
    [Type |-> SplitBlank(operand.TypeName)[2],
     Int1 |-> operand.Param1,
     Int2 |-> IF operand.Param2Header \notin IGNORE_COLUMNS
              THEN operand.Param2 ELSE 0,
     Int3 |-> IF operand.Param3Header \notin IGNORE_COLUMNS
              THEN operand.Param3 ELSE 0]

(***************************************************************************)
(* get_offenders: the parsing of the summary.                              *)
(***************************************************************************)
\* Line 66: the text between the nominal marker and the end of its line.
NominalText(summary) ==
    Split(PySliceFrom(summary, Find(summary, NOMINAL_MARKER) + NominalOffset),
          NL)[1]

\* WorstOffenders with a slip: the slice starts one line late.
WorstOffenders_FromThird(summary) ==
    LET section == PySlice(summary, Find(summary, WORST_MARKER),
                           Find(summary, RSS_MARKER))
    IN  PySlice(Split(section, NL), 3, -3)

\* Line 69: the lines of the worst-offenders section.
WorstOffenders(summary) ==
    LET section == PySlice(summary, Find(summary, WORST_MARKER),
                           Find(summary, RSS_MARKER))
    IN  PySlice(Split(section, NL), 2, -3)

\* Lines 86-91: field 2 is attempted on every line; a failure leaves the
\* default.
Int2Of(offender_parse) ==
    IF Len(offender_parse) >= 3 /\ IsInt(offender_parse[3])
    THEN IntOf(offender_parse[3]) ELSE 0

\* Int3Of with a slip: field 3 is read on a line of 6 fields too.
Int3Of_SixFields(offender_parse) ==
    IF Len(offender_parse) >= 6 /\ IsInt(offender_parse[4])
    THEN IntOf(offender_parse[4]) ELSE 0

\* Lines 93-98: field 3 is attempted on a line of more than 6 fields only;
\* a failure leaves the default.
Int3Of(offender_parse) ==
    IF Len(offender_parse) > 6 /\ IsInt(offender_parse[4])
    THEN IntOf(offender_parse[4]) ELSE 0

\* LineError with a slip: the conversion of field 2 is not guarded.
LineError_Unguarded(offender_parse) ==
    LET n == Len(offender_parse)
    IN  IF n < 2 THEN "IndexError"
        ELSE IF ~IsInt(offender_parse[2]) THEN "ValueError"
        ELSE IF ~IsFloat(offender_parse[n]) THEN "ValueError"
        ELSE IF ~IsFloat(offender_parse[n - 1]) THEN "ValueError"
        ELSE IF n < 3 THEN "IndexError"
        ELSE IF ~IsFloat(offender_parse[n - 2]) THEN "ValueError"
        ELSE IF ~IsInt(offender_parse[3]) THEN "ValueError"
        ELSE "none"

\* Lines 73-98: the exception that leaves the loop body on a line, "none"
\* when the body reaches its appends.  Only the unguarded statements raise:
\* field 1 (line 75) and the last three fields (lines 81-83).
LineError(offender_parse) ==
    LET n == Len(offender_parse)
    IN  IF n < 2 THEN "IndexError"
        ELSE IF ~IsInt(offender_parse[2]) THEN "ValueError"
        ELSE IF ~IsFloat(offender_parse[n]) THEN "ValueError"
        ELSE IF ~IsFloat(offender_parse[n - 1]) THEN "ValueError"
        ELSE IF n < 3 THEN "IndexError"
        ELSE IF ~IsFloat(offender_parse[n - 2]) THEN "ValueError"
        ELSE "none"

\* Lines 71-101: one pass of the loop body: the exception, or the two dicts
\* that are appended.
ParseLine(offender) ==
    LET offender_parse == Split(offender, TAB)
        n == Len(offender_parse)
    IN  IF LineError(offender_parse) # "none"
        THEN [exc |-> LineError(offender_parse),
              offender |-> <<>>, offense |-> <<>>]
        ELSE [exc |-> "none",
              offender |->
                  [Type |-> SubSeq(offender_parse[1], 1,
                                   Len(offender_parse[1]) - 1),
                   Int1 |-> IntOf(offender_parse[2]),
                   Int2 |-> Int2Of(offender_parse),
                   Int3 |-> Int3Of(offender_parse)],
              offense |->
                  [Change |-> FloatOf(offender_parse[n]),
                   Criterion |-> FloatOf(offender_parse[n - 1]),
                   Value |-> FloatOf(offender_parse[n - 2])]]

(***************************************************************************)
(* The inputs: the state of the application when the script starts.        *)
(***************************************************************************)
Join(fields) ==
    LET RECURSIVE J(_)
        J(k) == IF k = 1 THEN fields[1] ELSE J(k - 1) \o <<TAB>> \o fields[k]
    IN  IF fields = <<>> THEN <<>> ELSE J(Len(fields))

RECURSIVE JoinLines(_)
JoinLines(lines) ==
    IF lines = <<>> THEN <<>>
    ELSE Head(lines) \o <<NL>> \o JoinLines(Tail(lines))

\* The summary of a tolerancing that was run: the nominal criterion, then
\* the worst offenders under their marker and a header line, two empty
\* lines, and the root-sum-square section.
SummaryText(nominal, lines) ==
    PREAMBLE \o NOMINAL_MARKER \o nominal \o <<NL, NL>>
      \o WORST_MARKER \o <<NL>> \o HEADER \o <<NL>>
      \o JoinLines(lines) \o <<NL, NL>>
      \o RSS_MARKER \o <<":", NL>>

SeqsUpTo(S, n) == UNION {[1..k -> S] : k \in 0..n}

\* Operands of the editor.  TypeName is two words, the second one the name
\* the summary shows.
Headers == {"Adjust", "Max#", "Min#"}
Operands ==
    [TypeName : {TOL_TTHI, TOL_TEZI}, Param1 : {1, 2}, Param2 : {5},
     Param3 : {2}, Param2Header : Headers, Param3Header : Headers]

\* Offender lines: 6 fields (Type Int1 Int2 Value Criterion Change), 7 and
\* 8 fields (with Int3), 5 fields (no Int2 column), and lines on which a
\* mandatory field is missing or is not a number.
Lines6 ==
    {Join(<<F_TTHI, F_ONE, f2, v, F_CRIT, F_POS>>) :
        f2 \in {F_EMPTY, <<"3">>, F_CRIT}, v \in {F_ONE, F_NEG}}
Lines7 ==
    {Join(<<F_TEZI, F_ONE, f2, f3, F_ONE, F_CRIT, F_NEG>>) :
        f2 \in {F_EMPTY, <<"3">>}, f3 \in {F_EMPTY, <<"4">>, <<"x">>}}
Lines5 ==
    {Join(<<F_TTHI, F_PAD2, v, F_CRIT, F_NEG>>) : v \in {F_ONE, F_NEG}}
LinesOther ==
    {Join(<<F_TEZI, F_ONE, <<"3">>, <<"4">>, <<"9">>, F_ONE, F_CRIT, F_POS>>),
     Join(<<F_TTHI, F_EMPTY, F_EMPTY, F_ONE, F_CRIT, F_POS>>),
     Join(<<F_TTHI, F_ONE, F_EMPTY, F_ONE, F_CRIT, <<"x">>>>),
     Join(<<F_TTHI, F_ONE>>),
     <<>>}
Lines == Lines6 \cup Lines7 \cup Lines5 \cup LinesOther

\* The inputs of a whole run: three operands, two of which differ only in
\* the ignored columns, and the lines the sensitivity analysis shows for
\* them (an operand is listed for its minimum and for its maximum).
RunOperands ==
    {[TypeName |-> TOL_TTHI, Param1 |-> 1, Param2 |-> 2, Param3 |-> 0,
      Param2Header |-> "Adjust", Param3Header |-> "-"],
     [TypeName |-> TOL_TEZI, Param1 |-> 1, Param2 |-> 5, Param3 |-> 2,
      Param2Header |-> "Max#", Param3Header |-> "Min#"],
     [TypeName |-> TOL_TEZI, Param1 |-> 1, Param2 |-> 7, Param3 |-> 3,
      Param2Header |-> "Max#", Param3Header |-> "Min#"]}
RunLines ==
    {Join(<<F_TTHI, F_ONE, <<"2">>, F_NEG, F_CRIT, F_POS>>),
     Join(<<F_TEZI, F_ONE, F_EMPTY, F_POS, F_CRIT, F_NEG>>),
     Join(<<F_TEZI, F_ONE, F_EMPTY, F_NEG, F_CRIT, F_POS>>)}

\* The line is what the summary shows for the operand: it parses to the
\* operand's listing entry.
Originates(line, operand) ==
    LET parsed == ParseLine(line)
    IN  /\ parsed.exc = "none"
        /\ DictEq(parsed.offender, OperandData(operand))

\* The rows a line may come from; 0 stands for no row of the editor.
OriginsOf(line, rows) ==
    LET from == {r \in 1..Len(rows) : Originates(line, rows[r])}
    IN  IF from = {} THEN {0} ELSE from

\* The origins of the lines of a summary, line by line.
RECURSIVE Origins(_, _)
Origins(lines, rows) ==
    IF lines = <<>> THEN {<<>>}
    ELSE {<<o>> \o rest : o \in OriginsOf(Head(lines), rows),
                          rest \in Origins(Tail(lines), rows)}

(***************************************************************************)
(* State.                                                                  *)
(***************************************************************************)
VARIABLES
    tde,                \* application: the rows of the Tolerance Data Editor
    app_summary,        \* application: the Summary text of the viewer
    src_lines,          \* the worst-offender lines app_summary was built from
    origin,             \* origin[i]: the editor row line i was computed for
    tool,               \* the viewer: "none", "open" or "closed"
    opened,             \* number of tools opened so far
    calls,              \* the members of the application used, in order
    pc,                 \* position of the script
    exc,                \* the exception that ended the script, or "none"
    number_of_operands, operand_index, tde_listing,
    data_summary, nominal_criterion, worst_offenders, line_no,
    offenders_listing, offenses_listing,
    offender_id, printed, plot

vars ==
    <<tde, app_summary, src_lines, origin, tool, opened, calls, pc, exc,
      number_of_operands, operand_index, tde_listing, data_summary,
      nominal_criterion, worst_offenders, line_no, offenders_listing,
      offenses_listing, offender_id, printed, plot>>

appVars == <<tde, app_summary, src_lines, origin>>
tdeVars == <<number_of_operands, operand_index, tde_listing>>
offVars ==
    <<data_summary, nominal_criterion, worst_offenders, line_no,
      offenders_listing, offenses_listing>>
repVars == <<offender_id, printed, plot>>

ZeroFloat == [num |-> 0, exp |-> 0]
NoPlot == [labels |-> <<>>, changes |-> <<>>, colors |-> <<>>, left |-> ZeroFloat]

\* The script's own state before its first statement.
Start(at) ==
    /\ tool = "none" /\ opened = 0 /\ calls = <<>>
    /\ pc = at /\ exc = "none"
    /\ number_of_operands = 0 /\ operand_index = 0 /\ tde_listing = <<>>
    /\ data_summary = <<>> /\ nominal_criterion = ZeroFloat
    /\ worst_offenders = <<>> /\ line_no = 0
    /\ offenders_listing = <<>> /\ offenses_listing = <<>>
    /\ offender_id = 0 /\ printed = <<>> /\ plot = NoPlot

\* A whole run of the script.
Init ==
    /\ tde \in SeqsUpTo(RunOperands, MaxOperands)
    /\ src_lines \in SeqsUpTo(RunLines, MaxOffenders)
    /\ app_summary \in {SummaryText(F_CRIT, src_lines)}
                         \cup (IF src_lines = <<>> THEN {NO_DATA} ELSE {})
    /\ origin \in Origins(src_lines, tde)
    /\ Start("connect")

\* get_tde_operands alone, on every editor of the bound.
InitTde ==
    /\ tde \in SeqsUpTo(Operands, MaxOperands)
    /\ src_lines = <<>>
    /\ app_summary = NO_DATA
    /\ origin = <<>>
    /\ Start("get_tde_operands")

\* get_offenders alone, on every summary of the bound.
InitOffenders ==
    /\ tde = <<>>
    /\ src_lines \in SeqsUpTo(Lines, MaxOffenders)
    /\ app_summary \in {SummaryText(F_CRIT, src_lines)}
                         \cup (IF src_lines = <<>> THEN {NO_DATA} ELSE {})
    /\ origin = [i \in 1..Len(src_lines) |-> 0]
    /\ Start("get_offenders")

(***************************************************************************)
(* The script.  An exception that no statement catches ends it.            *)
(***************************************************************************)
Raise(e) == pc' = "error" /\ exc' = e

\* Lines 16-21 and 148: connect_zosapi.
Connect ==
    /\ pc = "connect"
    /\ calls' = Append(calls, "ZOS.get_primary_system")
    /\ pc' = "get_tde_operands"
    /\ UNCHANGED <<appVars, tool, opened, exc, tdeVars, offVars, repVars>>

\* Lines 25-28: get_tde_operands up to its loop.
GetTdeOperandsBegin ==
    /\ pc = "get_tde_operands"
    /\ tde_listing' = <<>>
    /\ number_of_operands' = Len(tde)
    /\ operand_index' = 1
    /\ calls' = Append(calls, "TDE.NumberOfOperands")
    /\ pc' = "tde_loop"
    /\ UNCHANGED <<appVars, tool, opened, exc, offVars, repVars>>

\* Lines 32-49: one pass of the loop over the operands.
GetTdeOperand ==
    /\ pc = "tde_loop"
    /\ operand_index <= number_of_operands
    /\ tde_listing' = Append(tde_listing, OperandData(tde[operand_index]))
    /\ operand_index' = operand_index + 1
    /\ calls' = Append(calls, "TDE.GetOperandAt")
    /\ UNCHANGED <<appVars, tool, opened, pc, exc, number_of_operands,
                   offVars, repVars>>

\* Line 51: get_tde_operands returns.
GetTdeOperandsReturn ==
    /\ pc = "tde_loop"
    /\ operand_index > number_of_operands
    /\ pc' = "get_offenders"
    /\ UNCHANGED <<appVars, tool, opened, calls, exc, tdeVars, offVars,
                   repVars>>

\* Lines 56-60: get_offenders opens the Tolerance Data Viewer.
OpenToleranceDataViewer ==
    /\ pc = "get_offenders"
    /\ offenders_listing' = <<>>
    /\ offenses_listing' = <<>>
    /\ tool' = "open"
    /\ opened' = opened + 1
    /\ calls' = Append(calls, "Tools.OpenToleranceDataViewer")
    /\ pc' = "run_tool"
    /\ UNCHANGED <<appVars, exc, tdeVars, data_summary, nominal_criterion,
                   worst_offenders, line_no, repVars>>

\* Line 61: the viewer runs; the call returns or raises.
RunAndWaitForCompletion ==
    /\ pc = "run_tool"
    /\ calls' = Append(calls, "Tool.RunAndWaitForCompletion")
    /\ \E completed \in BOOLEAN :
          IF completed THEN pc' = "read_summary" /\ exc' = exc
          ELSE Raise("ToolError")
    /\ UNCHANGED <<appVars, tool, opened, tdeVars, offVars, repVars>>

\* Line 62: the summary is read.
ReadSummary ==
    /\ pc = "read_summary"
    /\ data_summary' = app_summary
    /\ calls' = Append(calls, "Tool.Summary")
    /\ pc' = "close_tool"
    /\ UNCHANGED <<appVars, tool, opened, exc, tdeVars, nominal_criterion,
                   worst_offenders, line_no, offenders_listing,
                   offenses_listing, repVars>>

\* Line 63: the viewer is closed.
CloseTool ==
    /\ pc = "close_tool"
    /\ tool' = "closed"
    /\ calls' = Append(calls, "Tool.Close")
    /\ pc' = "nominal"
    /\ UNCHANGED <<appVars, opened, exc, tdeVars, offVars, repVars>>

\* Line 66: the nominal criterion.
ParseNominal ==
    /\ pc = "nominal"
    /\ IF IsFloat(NominalText(data_summary))
       THEN /\ nominal_criterion' = FloatOf(NominalText(data_summary))
            /\ pc' = "worst_offenders" /\ exc' = exc
       ELSE /\ Raise("ValueError")
            /\ UNCHANGED nominal_criterion
    /\ UNCHANGED <<appVars, tool, opened, calls, tdeVars, data_summary,
                   worst_offenders, line_no, offenders_listing,
                   offenses_listing, repVars>>

\* Line 69: the lines of the worst offenders.
SliceWorstOffenders ==
    /\ pc = "worst_offenders"
    /\ worst_offenders' = WorstOffenders(data_summary)
    /\ line_no' = 1
    /\ pc' = "parse_loop"
    /\ UNCHANGED <<appVars, tool, opened, calls, exc, tdeVars, data_summary,
                   nominal_criterion, offenders_listing, offenses_listing,
                   repVars>>

\* Lines 70-101: one pass of the loop over the lines.
ParseOffender ==
    /\ pc = "parse_loop"
    /\ line_no <= Len(worst_offenders)
    /\ LET parsed == ParseLine(worst_offenders[line_no])
       IN  IF parsed.exc = "none"
           THEN /\ offenders_listing' =
                       Append(offenders_listing, parsed.offender)
                /\ offenses_listing' = Append(offenses_listing, parsed.offense)
                /\ line_no' = line_no + 1
                /\ UNCHANGED <<pc, exc>>
           ELSE /\ Raise(parsed.exc)
                /\ UNCHANGED <<offenders_listing, offenses_listing, line_no>>
    /\ UNCHANGED <<appVars, tool, opened, calls, tdeVars, data_summary,
                   nominal_criterion, worst_offenders, repVars>>

\* Line 103: get_offenders returns.
GetOffendersReturn ==
    /\ pc = "parse_loop"
    /\ line_no > Len(worst_offenders)
    /\ pc' = "tde_operands_by_offense"
    /\ UNCHANGED <<appVars, tool, opened, calls, exc, tdeVars, offVars,
                   repVars>>

\* Lines 108-109: tde_operands_by_offense, one pass of its first loop.
\* offender_id counts the offenders done.
SetTdeLine ==
    /\ pc = "tde_operands_by_offense"
    /\ offender_id < Len(offenders_listing)
    /\ LET offender == offenders_listing[offender_id + 1]
           line == ListIndex(tde_listing, offender)
       IN  IF line # 0
           THEN /\ offenders_listing' =
                       [offenders_listing EXCEPT
                           ![offender_id + 1] = DictSet(@, "TdeLine", line)]
                /\ offender_id' = offender_id + 1
                /\ UNCHANGED <<pc, exc>>
           ELSE /\ Raise("ValueError")
                /\ UNCHANGED <<offenders_listing, offender_id>>
    /\ UNCHANGED <<appVars, tool, opened, calls, tdeVars, data_summary,
                   nominal_criterion, worst_offenders, line_no,
                   offenses_listing, printed, plot>>

\* Lines 111-113: the heading of the report.
PrintHeading ==
    /\ pc = "tde_operands_by_offense"
    /\ offender_id = Len(offenders_listing)
    /\ offender_id' = 0
    /\ printed' = <<>>
    /\ pc' = "print_loop"
    /\ UNCHANGED <<appVars, tool, opened, calls, exc, tdeVars, offVars, plot>>

\* Lines 114-123: one row of the report.
PrintRow ==
    /\ pc = "print_loop"
    /\ offender_id < Len(offenders_listing)
    /\ LET offender == offenders_listing[offender_id + 1]
           offense == offenses_listing[offender_id + 1]
       IN  printed' =
               Append(printed,
                      <<offender["TdeLine"], offender["Type"],
                        offender["Int1"], offender["Int2"], offender["Int3"],
                        offense["Value"], offense["Criterion"],
                        offense["Change"]>>)
    /\ offender_id' = offender_id + 1
    /\ UNCHANGED <<appVars, tool, opened, calls, pc, exc, tdeVars, offVars,
                   plot>>

\* str(n) of a natural number.
RECURSIVE Str(_)
Str(n) ==
    LET d == CHOOSE c \in Digits : DigitVal(c) = n % 10
    IN  IF n < 10 THEN <<d>> ELSE Str(n \div 10) \o <<d>>

\* Lines 125-141: the bar chart.
Plot ==
    /\ pc = "print_loop"
    /\ offender_id = Len(offenders_listing)
    /\ plot' =
          [labels |->
               [i \in 1..Len(offenders_listing) |->
                   Str(offenders_listing[i]["TdeLine"]) \o <<":", " ">>
                     \o offenders_listing[i]["Type"]],
           changes |->
               [i \in 1..Len(offenses_listing) |->
                   offenses_listing[i]["Change"]],
           colors |->
               [i \in 1..Len(offenses_listing) |->
                   IF offenses_listing[i]["Change"].num >= 0
                   THEN "chocolate" ELSE "lightgreen"],
           left |-> nominal_criterion]
    /\ pc' = "done"
    /\ UNCHANGED <<appVars, tool, opened, calls, exc, tdeVars, offVars,
                   offender_id, printed>>

GetTdeOperands ==
    GetTdeOperandsBegin \/ GetTdeOperand \/ GetTdeOperandsReturn

GetOffenders ==
    \/ OpenToleranceDataViewer
    \/ RunAndWaitForCompletion
    \/ ReadSummary
    \/ CloseTool
    \/ ParseNominal
    \/ SliceWorstOffenders
    \/ ParseOffender
    \/ GetOffendersReturn

TdeOperandsByOffense == SetTdeLine \/ PrintHeading \/ PrintRow \/ Plot

Next == Connect \/ GetTdeOperands \/ GetOffenders \/ TdeOperandsByOffense

Spec == Init /\ [][Next]_vars
SpecTde == InitTde /\ [][GetTdeOperands]_vars
SpecOffenders == InitOffenders /\ [][GetOffenders]_vars

(***************************************************************************)
(* Properties.                                                             *)
(***************************************************************************)
\* The tab-separated fields of the i-th worst-offender line of the summary.
FieldsOf(i) == Split(src_lines[i], TAB)

HasTdeLine(offender) == "TdeLine" \in DOMAIN offender

OffenderKeys == {"Type", "Int1", "Int2", "Int3"}

SameFour(a, b) == \A k \in OffenderKeys : a[k] = b[k]

\* The offenses of line i, from its last three fields.
OffenseOf(i) ==
    LET f == FieldsOf(i)
        n == Len(f)
    IN  [Change |-> FloatOf(f[n]), Criterion |-> FloatOf(f[n - 1]),
         Value |-> FloatOf(f[n - 2])]

\* C1: every offender that came from an editor row is reported with the
\* 1-based position of that row, also when two rows share Type, Int1, Int2
\* and Int3.
C1_TdeLineIsOriginRow ==
    \A i \in 1..Len(offenders_listing) :
        (HasTdeLine(offenders_listing[i]) /\ origin[i] # 0)
            => offenders_listing[i]["TdeLine"] = origin[i]

\* C2: the two listings have the same length, entry i of both comes from
\* the i-th worst-offender line of the summary, once get_offenders has
\* returned there is one entry per line, and the report has one row per
\* offender, in the order of the summary, row i pairing offender i with the
\* Value, Criterion and Change of the last three fields of line i.
C2_RankedAsSummary ==
    /\ Len(offenders_listing) = Len(offenses_listing)
    /\ Len(offenders_listing) <= Len(src_lines)
    /\ \A i \in 1..Len(offenders_listing) :
          /\ offenders_listing[i]["Type"] =
                 SubSeq(FieldsOf(i)[1], 1, Len(FieldsOf(i)[1]) - 1)
          /\ offenders_listing[i]["Int1"] = IntOf(FieldsOf(i)[2])
          /\ offenses_listing[i] = OffenseOf(i)
    /\ pc \in {"tde_operands_by_offense", "print_loop", "done"}
          => Len(offenders_listing) = Len(src_lines)
    /\ Len(printed) <= Len(offenders_listing)
    /\ \A i \in 1..Len(printed) :
          printed[i] =
              <<offenders_listing[i]["TdeLine"], offenders_listing[i]["Type"],
                offenders_listing[i]["Int1"], offenders_listing[i]["Int2"],
                offenders_listing[i]["Int3"], OffenseOf(i)["Value"],
                OffenseOf(i)["Criterion"], OffenseOf(i)["Change"]>>
    /\ pc = "done" => Len(printed) = Len(src_lines)

\* C2 happens: a report of two rows from two different lines.
C2_Witness ==
    /\ pc = "done"
    /\ Len(printed) = 2
    /\ src_lines[1] # src_lines[2]
    /\ printed[1] # printed[2]

\* C3: outside the statements of get_offenders that use the viewer, no
\* tool is open, whatever path left them, and at most one tool was opened.
C3_ToolClosedWhenLeft ==
    /\ opened <= 1
    /\ pc \notin {"run_tool", "read_summary", "close_tool"} => tool # "open"

\* The mandatory fields of a line convert: field 1 and the last three.
MandatoryFieldsConvert(f) ==
    /\ Len(f) >= 3
    /\ IsInt(f[2])
    /\ IsFloat(f[Len(f)]) /\ IsFloat(f[Len(f) - 1]) /\ IsFloat(f[Len(f) - 2])

\* C4: a field 2 or field 3 that is empty or not an integer leaves Int2 or
\* Int3 at 0 and changes nothing else: the offender is appended with its
\* Type, Int1 and offenses, the loop stops on a line only when a mandatory
\* field of that line does not convert, and a loop that returns has
\* appended every line.
C4_OptionalFieldsBestEffort ==
    /\ \A i \in 1..Len(offenders_listing) :
          LET f == FieldsOf(i)
          IN  /\ ~IsInt(f[3]) => offenders_listing[i]["Int2"] = 0
              /\ (Len(f) < 4 \/ ~IsInt(f[4]))
                     => offenders_listing[i]["Int3"] = 0
              /\ offenders_listing[i]["Type"] = SubSeq(f[1], 1, Len(f[1]) - 1)
              /\ offenders_listing[i]["Int1"] = IntOf(f[2])
              /\ offenses_listing[i] = OffenseOf(i)
    /\ (pc = "error" /\ line_no >= 1)
          => /\ Len(offenders_listing) = line_no - 1
             /\ ~MandatoryFieldsConvert(FieldsOf(line_no))
    /\ pc = "tde_operands_by_offense"
          => Len(offenders_listing) = Len(src_lines)

\* C4 happens: two lines were appended, the first with a field 2 that is
\* not an integer.
C4_Witness ==
    /\ pc = "tde_operands_by_offense"
    /\ Len(offenders_listing) = 2
    /\ FieldsOf(1)[3] # <<>>
    /\ ~IsInt(FieldsOf(1)[3])
    /\ offenders_listing[1]["Int2"] = 0

\* The stage of the report.
InReport == pc \in {"tde_operands_by_offense", "print_loop"}

ReadOnlyMembers ==
    {"ZOS.get_primary_system", "TDE.NumberOfOperands", "TDE.GetOperandAt",
     "Tools.OpenToleranceDataViewer", "Tool.RunAndWaitForCompletion",
     "Tool.Summary", "Tool.Close"}

\* C5: no step changes the editor or uses a member of the application that
\* writes, and a step of tde_operands_by_offense leaves tde_listing,
\* offenses_listing and nominal_criterion as they are and changes an
\* offender only by adding the key TdeLine.
C5_FrameStep ==
    /\ tde' = tde
    /\ \A k \in 1..Len(calls') : calls'[k] \in ReadOnlyMembers
    /\ InReport =>
          /\ tde_listing' = tde_listing
          /\ offenses_listing' = offenses_listing
          /\ nominal_criterion' = nominal_criterion
          /\ Len(offenders_listing') = Len(offenders_listing)
          /\ \A i \in 1..Len(offenders_listing) :
                /\ SameFour(offenders_listing'[i], offenders_listing[i])
                /\ DOMAIN offenders_listing'[i] \subseteq
                       (DOMAIN offenders_listing[i]) \cup {"TdeLine"}

C5_OnlyTdeLineAdded == [][C5_FrameStep]_vars

\* C5 happens: a report was made of an offender that got its TdeLine.
C5_Witness ==
    /\ pc = "done"
    /\ Len(offenders_listing) >= 1
    /\ HasTdeLine(offenders_listing[1])
    /\ Len(tde) >= 1

\* C6: the listing has entry k for operand k, with Int1 = Param1, Int2 =
\* Param2 unless the header of Param2 is "Max#" or "Min#" (then 0), and
\* Int3 = Param3 unless the header of Param3 is one of the two (then 0).
C6_TdeListing ==
    /\ Len(tde_listing) <= Len(tde)
    /\ pc = "get_offenders" => Len(tde_listing) = Len(tde)
    /\ \A k \in 1..Len(tde_listing) :
          /\ tde_listing[k]["Int1"] = tde[k].Param1
          /\ tde_listing[k]["Int2"] =
                 IF tde[k].Param2Header \in {"Max#", "Min#"}
                 THEN 0 ELSE tde[k].Param2
          /\ tde_listing[k]["Int3"] =
                 IF tde[k].Param3Header \in {"Max#", "Min#"}
                 THEN 0 ELSE tde[k].Param3

\* C6 happens: an operand whose Param2 is filtered and whose Param3 is not.
C6_Witness ==
    /\ pc = "get_offenders"
    /\ Len(tde_listing) = 2
    /\ tde[2].Param2Header = "Max#"
    /\ tde[2].Param3Header = "Adjust"
    /\ tde_listing[2]["Int2"] = 0
    /\ tde_listing[2]["Int3"] = tde[2].Param3

\* C7: Int3 is 0 on a line of 6 fields or fewer, whatever field 3 holds,
\* and the integer of field 3 on a longer line; Int2 is the integer of
\* field 2 on every line where field 2 is one.
C7_Int3OnlyOnLongLines ==
    \A i \in 1..Len(offenders_listing) :
        LET f == FieldsOf(i)
        IN  /\ Len(f) <= 6 => offenders_listing[i]["Int3"] = 0
            /\ (Len(f) > 6 /\ IsInt(f[4]))
                   => offenders_listing[i]["Int3"] = IntOf(f[4])
            /\ IsInt(f[3]) => offenders_listing[i]["Int2"] = IntOf(f[3])

\* C7 happens: a line of 6 fields whose field 3, the Value, is an integer.
C7_Witness ==
    /\ Len(offenders_listing) >= 1
    /\ Len(FieldsOf(1)) = 6
    /\ IsInt(FieldsOf(1)[4])
    /\ offenders_listing[1]["Int3"] = 0

\* C8: a TdeLine is in 1..len(tde_listing) and is the smallest position
\* whose entry equals the offender on Type, Int1, Int2 and Int3; offenders
\* equal on the four fields get the same TdeLine, and a row that repeats an
\* earlier row is never reported.
C8_SmallestMatchingLine ==
    \A i \in 1..Len(offenders_listing) :
        HasTdeLine(offenders_listing[i]) =>
            LET line == offenders_listing[i]["TdeLine"]
            IN  /\ line \in 1..Len(tde_listing)
                /\ SameFour(tde_listing[line], offenders_listing[i])
                /\ \A j \in 1..(line - 1) :
                      /\ ~SameFour(tde_listing[j], offenders_listing[i])
                      /\ ~SameFour(tde_listing[j], tde_listing[line])
                /\ \A j \in 1..Len(offenders_listing) :
                      (/\ HasTdeLine(offenders_listing[j])
                       /\ SameFour(offenders_listing[j], offenders_listing[i]))
                          => offenders_listing[j]["TdeLine"] = line

\* C8 happens: the report is done on a listing whose second entry repeats
\* the first, for an offender that equals both.
C8_Witness ==
    /\ pc = "done"
    /\ Len(tde_listing) >= 2
    /\ SameFour(tde_listing[1], tde_listing[2])
    /\ Len(offenders_listing) >= 1
    /\ SameFour(offenders_listing[1], tde_listing[2])
    /\ offenders_listing[1]["TdeLine"] = 1

====
